---- MODULE Spec2Model ----
(***************************************************************************)
(* A model of src/app.py, the Streamlit "AI Career Assistant" script.      *)
(*                                                                         *)
(* Streamlit re-executes the whole script, top to bottom, on every user    *)
(* interaction.  One such script run is modelled as a walk of `pc` through *)
(* the script's blocks; the session state and the resource cache survive   *)
(* from run to run, everything else is rebuilt.  The LLM, the agent, the   *)
(* web search and the PDF/DOCX parsers are collaborators: each call either *)
(* returns one of a few values or raises.                                  *)
(*                                                                         *)
(* A text is a sequence of words; the empty sequence is the empty string.  *)
(***************************************************************************)
EXTENDS Integers, Sequences, FiniteSets, TLC

VARIABLES
    pc,                    \* position of the script run
    secrets,               \* st.secrets holds both API keys (input of a run)
    keys_loaded,           \* module-level flag, lines 22-27
    cache,                 \* st.cache_resource holds (llm, search_tool)
    bound,                 \* the names llm, search_tool are bound in this run
    has_resume_text,       \* 'resume_text' in st.session_state
    resume_text,           \* st.session_state.resume_text
    company_name,          \* widget values of this run
    job_role,
    uploaded_file,
    uploaded_file_tailor,
    job_description_text,
    clicked,               \* the button whose click triggered this run
    display,               \* what this run has rendered so far
    log,                   \* collaborator and helper calls of this run
    original_score,        \* locals of the tailor handler
    tailored_resume,
    new_score,
    argA,                  \* arguments and result of a helper applied on its own
    argB,
    ret

vars ==
    << pc, secrets, keys_loaded, cache, bound, has_resume_text, resume_text,
       company_name, job_role, uploaded_file, uploaded_file_tailor,
       job_description_text, clicked, display, log, original_score,
       tailored_resume, new_score, argA, argB, ret >>

(***************************************************************************)
(* Python values                                                           *)
(***************************************************************************)
\* None, and a str holding the given words.
PyNone == [isNone |-> TRUE, words |-> <<>>]

Str(w) == [isNone |-> FALSE, words |-> w]

\* Python truthiness of an Optional[str]: None and "" are falsy.
Truthy(v) == (~v.isNone) /\ v.words # <<>>

\* s[:n] on a str, one word standing for one character.
Prefix(v, n) ==
    IF v.isNone THEN v
    ELSE Str(SubSeq(v.words, 1, IF Len(v.words) < n THEN Len(v.words) ELSE n))

\* An exception carries its message.
NoExc == ""

(***************************************************************************)
(* The words of the modelled texts                                         *)
(***************************************************************************)
\* The newline that parse_resume appends to every DOCX paragraph.
NL == "\n"

\* sklearn's 'english' stop list, restricted to the words in use.
EnglishStopWords == {"the"}

\* str.lower(), as TfidfVectorizer(lowercase=True) applies it.
Lower(w) == IF w = "Python" THEN "python" ELSE w

\* token_pattern (?u)\b\w\w+\b : whitespace is no token.
IsWord(w) == w # NL

(***************************************************************************)
(* calculate_match_score (lines 65-73) and the sklearn calls it makes      *)
(***************************************************************************)
\* TfidfVectorizer.build_analyzer: lowercase, tokenize, drop stop words.
Tokens(text) ==
    SelectSeq([i \in 1..Len(text) |-> Lower(text[i])],
              LAMBDA w : IsWord(w) /\ w \notin EnglishStopWords)

\* Term frequency of t in a token sequence.
Count(t, toks) == Cardinality({i \in DOMAIN toks : toks[i] = t})

TermsOf(toks) == {toks[i] : i \in DOMAIN toks}

RECURSIVE Sum(_, _)
Sum(S, f) ==
    IF S = {} THEN 0
    ELSE LET x == CHOOSE y \in S : TRUE IN f[x] + Sum(S \ {x}, f)

\* x/y <= u/v for x, u >= 0 and y, v > 0, by comparing the continued
\* fractions: no product is formed, so nothing exceeds the operands.
RECURSIVE LeqFrac(_, _, _, _)
LeqFrac(x, y, u, v) ==
    LET q1 == x \div y
        q2 == u \div v
        r1 == x % y
        r2 == u % v
    IN  IF q1 < q2 THEN TRUE
        ELSE IF q1 > q2 THEN FALSE
        ELSE IF r1 = 0 THEN TRUE
        ELSE IF r2 = 0 THEN FALSE
        ELSE LeqFrac(v, r2, y, r1)

\* The squared weight of a term that occurs in one of the two documents
\* only: idf = ln((1+2)/(1+1)) + 1 = 1.40546..., idf^2 = 1.975332... ,
\* taken as the fraction 160/81 = 1.975308... .  A term of both documents
\* has idf = ln(3/3) + 1 = 1.
IdfSquared == <<160, 81>>

\* cosine_similarity of the two rows of fit_transform([A, B]) (smooth idf,
\* l2 norm), as the fraction <<n, d>> = cos^2.  An all-zero row stays zero
\* under normalisation and gives cosine 0.
TfidfCosineSquared(ta, tb) ==
    LET shared == TermsOf(ta) \cap TermsOf(tb)
        onlyA  == TermsOf(ta) \ shared
        onlyB  == TermsOf(tb) \ shared
        tfA    == [t \in TermsOf(ta) |-> Count(t, ta)]
        tfB    == [t \in TermsOf(tb) |-> Count(t, tb)]
        dot    == Sum(shared, [t \in shared |-> tfA[t] * tfB[t]])
        normA  == IdfSquared[2] * Sum(shared, [t \in shared |-> tfA[t] * tfA[t]])
                  + IdfSquared[1] * Sum(onlyA, [t \in onlyA |-> tfA[t] * tfA[t]])
        normB  == IdfSquared[2] * Sum(shared, [t \in shared |-> tfB[t] * tfB[t]])
                  + IdfSquared[1] * Sum(onlyB, [t \in onlyB |-> tfB[t] * tfB[t]])
    IN  IF dot = 0 THEN <<0, 1>>
        ELSE <<dot * dot * IdfSquared[2] * IdfSquared[2], normA * normB>>

\* int(c * 100) for a cosine c >= 0 given as c^2 = n/d: the k with
\* k <= 100c < k + 1, i.e. k^2/10^4 <= n/d < (k+1)^2/10^4.
IntPercentRounded(c2) ==
    CHOOSE k \in 0..100 :
        /\ (k = 0 \/ LeqFrac((2 * k - 1) * (2 * k - 1), 40000, c2[1], c2[2]))
        /\ (k = 100 \/ ~LeqFrac((2 * k + 1) * (2 * k + 1), 40000, c2[1], c2[2]))

IntPercent(c2) ==
    CHOOSE k \in 0..100 :
        /\ LeqFrac(k * k, 10000, c2[1], c2[2])
        /\ ~LeqFrac((k + 1) * (k + 1), 10000, c2[1], c2[2])

\* Lines 69-73: the vectorizer is built and fitted on [A, B].  A None
\* document has no .lower(); two documents without a single term make
\* fit_transform raise ValueError("empty vocabulary ...").
fit_and_compare(a, b) ==
    LET ta == Tokens(a.words)
        tb == Tokens(b.words)
    IN  IF a.isNone \/ b.isNone
        THEN [raised |-> "AttributeError", value |-> 0, vectorizer |-> TRUE]
        ELSE IF ta = <<>> /\ tb = <<>>
        THEN [raised |-> "empty vocabulary", value |-> 0, vectorizer |-> TRUE]
        ELSE [raised |-> NoExc,
              value |-> IntPercent(TfidfCosineSquared(ta, tb)),
              vectorizer |-> TRUE]

\* The guard of line 67 written with `and`.
calculate_match_score_and(a, b) ==
    IF (~Truthy(a)) /\ (~Truthy(b))
    THEN [raised |-> NoExc, value |-> 0, vectorizer |-> FALSE]
    ELSE fit_and_compare(a, b)

\* The result of a call: the exception raised (NoExc when it returns), the
\* value returned, and whether a TfidfVectorizer was built.
calculate_match_score(a, b) ==
    IF (~Truthy(a)) \/ (~Truthy(b))
    THEN [raised |-> NoExc, value |-> 0, vectorizer |-> FALSE]
    ELSE fit_and_compare(a, b)

(***************************************************************************)
(* What a run renders and what it calls                                    *)
(***************************************************************************)
\* One rendered element: the st.* call, its fixed text, the exception text
\* interpolated into it, the document shown and up to two numbers.
Item(kind, text, cause, doc, n, m) ==
    [kind |-> kind, text |-> text, cause |-> cause, doc |-> doc, n |-> n, m |-> m]

st_error(text, cause) == Item("error", text, cause, PyNone, 0, 0)

st_warning(text) == Item("warning", text, NoExc, PyNone, 0, 0)

st_success(text) == Item("success", text, NoExc, PyNone, 0, 0)

st_info(text, doc) == Item("info", text, NoExc, doc, 0, 0)

st_subheader(text) == Item("subheader", text, NoExc, PyNone, 0, 0)

st_markdown(doc) == Item("markdown", "", NoExc, doc, 0, 0)

\* st.metric(label, value, delta); the original score carries no delta.
st_metric(label, value, delta) == Item("metric", label, NoExc, PyNone, value, delta)

\* One call of a collaborator or helper: what was called, from where, on what.
Call(op, at, a, b) == [op |-> op, at |-> at, a |-> a, b |-> b]

(***************************************************************************)
(* parse_resume (lines 45-63)                                              *)
(***************************************************************************)
\* os.path.splitext(file.name): the name is kept as its two halves.
splitext(name) == <<name.root, name.ext>>

\* The loops of lines 52-53 and 56-57 from part i on.  The parser raises
\* file.cause when it reaches part file.failAt (failAt = 1 is also the
\* reader's constructor failing); `sep` is what is appended to each part.
RECURSIVE extract(_, _, _, _)
extract(file, i, text, sep) ==
    IF file.failAt = i THEN [raised |-> file.cause, text |-> text]
    ELSE IF i > Len(file.parts) THEN [raised |-> NoExc, text |-> text]
    ELSE extract(file, i + 1, text \o file.parts[i] \o sep, sep)

\* The except clause of lines 60-62 returning what was read so far.
parse_resume_partial(file) ==
    LET file_extension == splitext(file.name)[2]
        got == extract(file, 1, <<>>, IF file_extension = ".docx" THEN <<NL>> ELSE <<>>)
    IN  IF file_extension \notin {".pdf", ".docx"}
        THEN [ret |-> PyNone, shown |-> <<>>, reads |-> 0]
        ELSE IF got.raised # NoExc
        THEN [ret |-> Str(got.text),
              shown |-> <<st_error("Error parsing file: ", got.raised)>>,
              reads |-> 1]
        ELSE [ret |-> Str(got.text), shown |-> <<>>, reads |-> 1]

\* The value returned, what st.error rendered, and how often the file was
\* read and handed to a parser.
parse_resume(file) ==
    LET file_extension == splitext(file.name)[2]
        got == extract(file, 1, <<>>, IF file_extension = ".docx" THEN <<NL>> ELSE <<>>)
    IN  IF file_extension \notin {".pdf", ".docx"}
        THEN [ret |-> PyNone, shown |-> <<>>, reads |-> 0]
        ELSE IF got.raised # NoExc
        THEN [ret |-> PyNone,
              shown |-> <<st_error("Error parsing file: ", got.raised)>>,
              reads |-> 1]
        ELSE [ret |-> Str(got.text), shown |-> <<>>, reads |-> 1]

(***************************************************************************)
(* run_research_agent, run_job_matcher, run_resume_tailor (lines 78-181)   *)
(***************************************************************************)
\* The outcome of a collaborator call: the exception it raises (NoExc when
\* it returns) and what it returns.
Raises(cause) == [raised |-> cause, content |-> PyNone, results |-> <<>>]

Returns(content) == [raised |-> NoExc, content |-> content, results |-> <<>>]

Finds(results) == [raised |-> NoExc, content |-> PyNone, results |-> results]

\* Lines 83-110.  hub.pull may fail before the executor exists; otherwise
\* the executor is invoked once and its 'output' returned.
run_research_agent(company, role, hub_out, agent_out) ==
    IF hub_out.raised # NoExc
    THEN [raised |-> hub_out.raised, value |-> PyNone,
          calls |-> <<Call("hub.pull", "run_research_agent", PyNone, PyNone)>>]
    ELSE [raised |-> agent_out.raised,
          value |-> agent_out.content,
          calls |-> <<Call("hub.pull", "run_research_agent", PyNone, PyNone),
                      Call("agent_executor.invoke", "run_research_agent", company, role)>>]

\* str.strip(): leading and trailing whitespace removed.
RECURSIVE lstrip(_)
lstrip(w) == IF w # <<>> /\ Head(w) = NL THEN lstrip(Tail(w)) ELSE w

RECURSIVE rstrip(_)
rstrip(w) ==
    IF w # <<>> /\ w[Len(w)] = NL THEN rstrip(SubSeq(w, 1, Len(w) - 1)) ELSE w

strip(v) == Str(lstrip(rstrip(v.words)))

\* resume_text[:2000] of the query prompt, line 121.
QueryChars == 2000

\* matched_jobs[:5], line 152.
TopMatches == 5

\* The loop of lines 134-148 from result i on: a result without content is
\* skipped, every other one is scored against the whole resume and appended.
\* An exception of the scorer leaves the loop.
RECURSIVE score_results(_, _, _, _)
score_results(text, search_results, i, acc) ==
    IF i > Len(search_results)
    THEN [raised |-> NoExc, jobs |-> acc.jobs, calls |-> acc.calls]
    ELSE LET result == search_results[i]
             description == result.content
             score == calculate_match_score(text, description)
             call == Call("calculate_match_score", "run_job_matcher", text, description)
         IN  IF ~Truthy(description)
             THEN score_results(text, search_results, i + 1, acc)
             ELSE IF score.raised # NoExc
             THEN [raised |-> score.raised, jobs |-> acc.jobs,
                   calls |-> Append(acc.calls, call)]
             ELSE score_results(text, search_results, i + 1,
                      [jobs |-> Append(acc.jobs,
                                       [title |-> result.title, url |-> result.url,
                                        description |-> description,
                                        score |-> score.value]),
                       calls |-> Append(acc.calls, call)])

\* A sort that puts a job before the earlier ones of the same score.
insert_by_score_before_ties(sorted, job) ==
    LET k == Cardinality({i \in DOMAIN sorted : sorted[i].score > job.score})
    IN  SubSeq(sorted, 1, k) \o <<job>> \o SubSeq(sorted, k + 1, Len(sorted))

\* list.sort(key=score, reverse=True) is stable: a job goes behind every
\* job of a score at least its own that came before it.
insert_by_score(sorted, job) ==
    LET k == Cardinality({i \in DOMAIN sorted : sorted[i].score >= job.score})
    IN  SubSeq(sorted, 1, k) \o <<job>> \o SubSeq(sorted, k + 1, Len(sorted))

RECURSIVE sort_by_score(_, _)
sort_by_score(jobs, sorted) ==
    IF jobs = <<>> THEN sorted
    ELSE sort_by_score(Tail(jobs), insert_by_score(sorted, Head(jobs)))

\* Lines 112-152: the value returned, the exception that left the function,
\* what it rendered on the way and the calls it made, in order.
run_job_matcher(text, llm_out, search_out) ==
    LET query_call == Call("llm.invoke", "run_job_matcher", Prefix(text, QueryChars), PyNone)
        search_query == strip(llm_out.content)
        info == st_info("Searching for jobs with query:", search_query)
        search_call == Call("search_tool.invoke", "run_job_matcher", search_query, PyNone)
        scored == score_results(text, search_out.results, 1, [jobs |-> <<>>, calls |-> <<>>])
        ranked == sort_by_score(scored.jobs, <<>>)
    IN  IF llm_out.raised # NoExc
        THEN [raised |-> llm_out.raised, value |-> <<>>, shown |-> <<>>,
              calls |-> <<query_call>>]
        ELSE IF search_out.raised # NoExc
        THEN [raised |-> search_out.raised, value |-> <<>>, shown |-> <<info>>,
              calls |-> <<query_call, search_call>>]
        ELSE IF scored.raised # NoExc
        THEN [raised |-> scored.raised, value |-> <<>>, shown |-> <<info>>,
              calls |-> <<query_call, search_call>> \o scored.calls]
        ELSE [raised |-> NoExc,
              value |-> SubSeq(ranked, 1,
                               IF Len(ranked) < TopMatches THEN Len(ranked) ELSE TopMatches),
              shown |-> <<info>>,
              calls |-> <<query_call, search_call>> \o scored.calls]

\* A tailor that tidies the response before returning it.
run_resume_tailor_stripped(text, job_description, llm_out) ==
    [raised |-> llm_out.raised,
     value |-> strip(llm_out.content),
     calls |-> <<Call("llm.invoke", "run_resume_tailor", text, job_description)>>]

\* Lines 155-181: one llm.invoke on the prompt built from both texts; the
\* response's content is returned as it is.
run_resume_tailor(text, job_description, llm_out) ==
    [raised |-> llm_out.raised,
     value |-> llm_out.content,
     calls |-> <<Call("llm.invoke", "run_resume_tailor", text, job_description)>>]

(***************************************************************************)
(* The inputs of a script run                                              *)
(***************************************************************************)
\* An uploaded file: its name, the texts of its pages or paragraphs, and
\* where its parser raises (0: nowhere).
File(ext, parts, failAt, cause) ==
    [name |-> [root |-> "cv", ext |-> ext], parts |-> parts,
     failAt |-> failAt, cause |-> cause]

\* st.file_uploader returns None while nothing is uploaded.
NoFile == [name |-> [root |-> "", ext |-> ""], parts |-> <<>>, failAt |-> 0, cause |-> NoExc]

\* The uploader's type=["pdf", "docx"] filter compares extensions without
\* regard to case, so "cv.PDF" is accepted.
Uploads ==
    { NoFile,
      File(".pdf", << <<"python">>, <<"aws">> >>, 0, NoExc),
      File(".pdf", << <<"python">>, <<"aws">> >>, 2, "EOF marker not found"),
      File(".pdf", <<>>, 0, NoExc),
      File(".docx", << <<>> >>, 0, NoExc),
      File(".docx", << <<"python">> >>, 1, "File is not a zip file"),
      File(".PDF", << <<"python">> >>, 0, NoExc) }

TextInputs == { Str(<<>>), Str(<<"Acme">>) }

JobDescriptions == { Str(<<>>), Str(<<"python">>), Str(<<"the">>) }

Buttons == { "research_button", "matcher_button", "tailor_button" }

\* Longest list the search tool returns in a script run.
MaxResults == 2

Snippets == { Str(<<>>), Str(<<"python">>), Str(<<"the">>) }

\* The i-th search result carries i as its title and url.
ResultLists(n) ==
    UNION { { [i \in 1..k |-> [title |-> i, url |-> i, content |-> c[i]]] :
              c \in [1..k -> Snippets] } : k \in 0..n }

HubOutcomes == { Raises("hub unreachable"), Returns(PyNone) }

AgentOutcomes == { Raises("agent stopped"), Returns(Str(<<"summary">>)) }

QueryOutcomes == { Raises("quota exceeded"), Returns(Str(<<NL, "python", "jobs", NL>>)) }

SearchOutcomes == { Raises("search failed") } \cup { Finds(r) : r \in ResultLists(MaxResults) }

TailorOutcomes ==
    { Raises("quota exceeded"), Returns(Str(<<>>)),
      Returns(Str(<<"the">>)), Returns(Str(<<"Python", "aws", NL>>)) }

\* st.button(..., disabled=d): a disabled button cannot be clicked, so it
\* returns True only in the run its click triggered and only when enabled.
st_button(key, disabled) == clicked = key /\ ~disabled

\* Fixed elements of the page.
st_title == Item("title", "AI Career Assistant", NoExc, PyNone, 0, 0)

st_intro == Item("markdown", "Your all-in-one tool", NoExc, PyNone, 0, 0)

st_rule == Item("markdown", "---", NoExc, PyNone, 0, 0)

st_header(text) == Item("header", text, NoExc, PyNone, 0, 0)

\* job['description'][:500] + "...", line 250.
SnippetChars == 500

(***************************************************************************)
(* The script run                                                          *)
(***************************************************************************)
\* Before the session's first run: nothing cached, nothing stored, every
\* widget empty.
fresh_session ==
    /\ secrets = FALSE
    /\ keys_loaded = FALSE
    /\ cache = FALSE
    /\ bound = FALSE
    /\ has_resume_text = FALSE
    /\ resume_text = PyNone
    /\ company_name = Str(<<>>)
    /\ job_role = Str(<<>>)
    /\ uploaded_file = NoFile
    /\ uploaded_file_tailor = NoFile
    /\ job_description_text = Str(<<>>)
    /\ clicked = "none"
    /\ display = <<>>
    /\ log = <<>>
    /\ original_score = 0
    /\ tailored_resume = PyNone
    /\ new_score = 0

Init ==
    /\ pc = "idle"
    /\ fresh_session
    /\ argA = PyNone
    /\ argB = PyNone
    /\ ret = PyNone

helper_vars == <<argA, argB, ret>>

widget_vars ==
    << secrets, company_name, job_role, uploaded_file, uploaded_file_tailor,
       job_description_text, clicked >>

tailor_vars == <<original_score, tailored_resume, new_score>>

\* An interaction (or the first page load) starts a run of the script from
\* its first line with the widgets' current values; at most one button is
\* the one that was clicked.  Session state and resource cache are kept.
StartRun ==
    /\ pc = "idle"
    /\ pc' = "keys"
    /\ secrets' \in BOOLEAN
    /\ company_name' \in TextInputs
    /\ job_role' \in TextInputs
    /\ uploaded_file' \in Uploads
    /\ uploaded_file_tailor' \in Uploads
    /\ job_description_text' \in JobDescriptions
    /\ clicked' \in Buttons \cup {"none"}
    /\ keys_loaded' = FALSE
    /\ bound' = FALSE
    /\ display' = <<>>
    /\ log' = <<>>
    /\ original_score' = 0
    /\ tailored_resume' = PyNone
    /\ new_score' = 0
    /\ UNCHANGED <<cache, has_resume_text, resume_text, helper_vars>>

\* Lines 21-27: both keys are read from st.secrets; a missing key or file
\* is caught.
LoadKeys ==
    /\ pc = "keys"
    /\ keys_loaded' = secrets
    /\ pc' = "components"
    /\ UNCHANGED <<cache, bound, has_resume_text, resume_text, widget_vars,
                   display, log, tailor_vars, helper_vars>>

\* Lines 31-41: with the keys loaded, llm and search_tool are taken from
\* the resource cache, which builds them on the first call.  A constructor
\* that raises ends the run; nothing is cached then.
GetSharedComponents ==
    /\ pc = "components"
    /\ IF ~keys_loaded
       THEN /\ pc' = "gate"
            /\ UNCHANGED <<cache, bound, log>>
       ELSE IF cache
       THEN /\ pc' = "gate"
            /\ bound' = TRUE
            /\ UNCHANGED <<cache, log>>
       ELSE \E built \in BOOLEAN :
            /\ pc' = IF built THEN "gate" ELSE "crashed"
            /\ cache' = built
            /\ bound' = built
            /\ log' = Append(log, Call("get_shared_components", "module", PyNone, PyNone))
    /\ UNCHANGED <<keys_loaded, has_resume_text, resume_text, widget_vars,
                   display, tailor_vars, helper_vars>>

\* A gate that renders the tabs whatever keys_loaded is.
KeysGateOpen ==
    /\ pc = "gate"
    /\ has_resume_text' = TRUE
    /\ resume_text' = IF has_resume_text THEN resume_text ELSE Str(<<>>)
    /\ display' = display \o <<st_title, st_intro, Item("tabs", "", NoExc, PyNone, 0, 0)>>
    /\ pc' = "tab1"
    /\ UNCHANGED <<keys_loaded, cache, bound, widget_vars, log, tailor_vars, helper_vars>>

\* Lines 184-201: title and introduction, then either the missing-keys
\* error and nothing else, or the session's resume text (created empty on
\* the session's first run) and the three tabs.
KeysGate ==
    /\ pc = "gate"
    /\ IF ~keys_loaded
       THEN /\ display' = display \o
                   <<st_title, st_intro,
                     st_error("API keys not found.", NoExc),
                     Item("markdown", "secrets.toml", NoExc, PyNone, 0, 0)>>
            /\ pc' = "done"
            /\ UNCHANGED <<has_resume_text, resume_text>>
       ELSE /\ has_resume_text' = TRUE
            /\ resume_text' = IF has_resume_text THEN resume_text ELSE Str(<<>>)
            /\ display' = display \o
                   <<st_title, st_intro, Item("tabs", "", NoExc, PyNone, 0, 0)>>
            /\ pc' = "tab1"
    /\ UNCHANGED <<keys_loaded, cache, bound, widget_vars, log, tailor_vars, helper_vars>>

\* A handler whose exception is not caught: nothing is rendered for it and
\* it leaves the script.
except_nothing(cause) == [shown |-> <<>>, escaped |-> TRUE]

\* except Exception as e: st.error(f"An error occurred: {e}") of lines
\* 220-221, 251-252 and 292-293: what is rendered for the exception, and
\* whether the exception leaves the handler.
except_Exception(cause) ==
    [shown |-> <<st_error("An error occurred: ", cause)>>, escaped |-> FALSE]

\* The log's note of an exception raised inside a handler.
raise_note(cause, at) ==
    IF cause = NoExc THEN <<>> ELSE <<Call("raise", at, Str(<<cause>>), PyNone)>>

\* Where the run goes after a handler that raised `cause` (NoExc: did not).
after_handler(cause, next) ==
    IF cause # NoExc /\ except_Exception(cause).escaped THEN "crashed" ELSE next

\* Lines 204-223.  The click is served only with both inputs filled in.
ResearchButton ==
    /\ pc = "tab1"
    /\ IF st_button("research_button", FALSE)
       THEN IF Truthy(company_name) /\ Truthy(job_role)
            THEN \E hub_out \in HubOutcomes, agent_out \in AgentOutcomes :
                 LET r == run_research_agent(company_name, job_role, hub_out, agent_out)
                 IN  /\ log' = log \o r.calls \o raise_note(r.raised, "research_button")
                     /\ display' = display \o <<st_header("Research a Company and Role")>> \o
                            (IF r.raised = NoExc
                             THEN <<st_rule, st_subheader("Research Summary"),
                                    st_markdown(r.value)>>
                             ELSE except_Exception(r.raised).shown)
                     /\ pc' = after_handler(r.raised, "tab2")
            ELSE /\ display' = display \o
                        <<st_header("Research a Company and Role"),
                          st_warning("Please enter both a company name and a job role.")>>
                 /\ pc' = "tab2"
                 /\ UNCHANGED log
       ELSE /\ display' = Append(display, st_header("Research a Company and Role"))
            /\ pc' = "tab2"
            /\ UNCHANGED log
    /\ UNCHANGED <<keys_loaded, cache, bound, has_resume_text, resume_text,
                   widget_vars, tailor_vars, helper_vars>>

\* An uploader that keeps the text of an earlier upload when the parse of
\* the current file gives nothing.
stored_if_parsed(old, parsed) == IF Truthy(parsed) THEN parsed ELSE old

\* Lines 231 and 263: the parse result replaces the stored text.
stored_after_upload(old, parsed) == parsed

\* What an uploader block does with the file it holds: lines 230-233 and
\* 262-265.
upload(file, at) ==
    LET p == parse_resume(file)
    IN  [text  |-> stored_after_upload(resume_text, p.ret),
         shown |-> p.shown \o
                   (IF Truthy(stored_after_upload(resume_text, p.ret))
                    THEN <<st_success("Resume parsed successfully!")>> ELSE <<>>),
         calls |-> <<Call("parse_resume", at, PyNone, PyNone)>> \o
                   (IF p.reads > 0 THEN <<Call("file.read", at, PyNone, PyNone)>> ELSE <<>>)]

\* Lines 226-233.
Tab2Uploader ==
    /\ pc = "tab2"
    /\ IF uploaded_file # NoFile
       THEN LET u == upload(uploaded_file, "tab2")
            IN  /\ resume_text' = u.text
                /\ display' = display \o <<st_header("Analyze Your Resume")>> \o u.shown
                /\ log' = log \o u.calls
       ELSE /\ display' = Append(display, st_header("Analyze Your Resume"))
            /\ UNCHANGED <<resume_text, log>>
    /\ pc' = "matcher"
    /\ UNCHANGED <<keys_loaded, cache, bound, has_resume_text, widget_vars,
                   tailor_vars, helper_vars>>

\* disabled=not st.session_state.resume_text, line 235.
matcher_disabled == ~Truthy(resume_text)

\* What lines 239-250 render for the list run_job_matcher returned.
render_matches(matched_jobs) ==
    <<st_rule, st_subheader("Top Job Matches")>> \o
    (IF matched_jobs = <<>>
     THEN <<st_warning("The web search did not return any job postings")>>
     ELSE <<Item("markdown", "Here are the top matches", NoExc, PyNone, 0, 0)>> \o
          [i \in 1..Len(matched_jobs) |->
              Item("expander", "Match Score", NoExc,
                   Str(Prefix(matched_jobs[i].description, SnippetChars).words \o <<"...">>),
                   matched_jobs[i].score, matched_jobs[i].title)])

\* Lines 235-252.
MatcherButton ==
    /\ pc = "matcher"
    /\ IF st_button("matcher_button", matcher_disabled)
       THEN \E llm_out \in QueryOutcomes, search_out \in SearchOutcomes :
            LET r == run_job_matcher(resume_text, llm_out, search_out)
            IN  /\ log' = log \o r.calls \o raise_note(r.raised, "matcher_button")
                /\ display' = display \o r.shown \o
                       (IF r.raised = NoExc THEN render_matches(r.value)
                        ELSE except_Exception(r.raised).shown)
                /\ pc' = after_handler(r.raised, "tab3")
       ELSE /\ pc' = "tab3"
            /\ UNCHANGED <<log, display>>
    /\ UNCHANGED <<keys_loaded, cache, bound, has_resume_text, resume_text,
                   widget_vars, tailor_vars, helper_vars>>

\* Lines 255-268.
Tab3Uploader ==
    /\ pc = "tab3"
    /\ IF uploaded_file_tailor # NoFile
       THEN LET u == upload(uploaded_file_tailor, "tab3")
            IN  /\ resume_text' = u.text
                /\ display' = display \o <<st_header("Tailor Your Resume")>> \o u.shown
                /\ log' = log \o u.calls
       ELSE /\ display' = Append(display, st_header("Tailor Your Resume"))
            /\ UNCHANGED <<resume_text, log>>
    /\ pc' = "tailor"
    /\ UNCHANGED <<keys_loaded, cache, bound, has_resume_text, widget_vars,
                   tailor_vars, helper_vars>>

\* A button enabled as soon as a resume is stored.
tailor_disabled_resume_only == ~Truthy(resume_text)

\* disabled=not (st.session_state.resume_text and job_description_text),
\* line 270.
tailor_disabled == ~(Truthy(resume_text) /\ Truthy(job_description_text))

\* Lines 270-274: the button, and the score of the stored resume.
TailorButton ==
    /\ pc = "tailor"
    /\ IF st_button("tailor_button", tailor_disabled)
       THEN LET s == calculate_match_score(resume_text, job_description_text)
            IN  /\ log' = log \o <<Call("calculate_match_score", "original",
                                         resume_text, job_description_text)>> \o
                           raise_note(s.raised, "tailor_button")
                /\ original_score' = s.value
                /\ display' = display \o
                       (IF s.raised = NoExc THEN <<>> ELSE except_Exception(s.raised).shown)
                /\ pc' = IF s.raised = NoExc THEN "tailor_llm"
                         ELSE after_handler(s.raised, "done")
       ELSE /\ pc' = "done"
            /\ UNCHANGED <<log, display, original_score>>
    /\ UNCHANGED <<keys_loaded, cache, bound, has_resume_text, resume_text,
                   widget_vars, tailored_resume, new_score, helper_vars>>

\* Line 277; the log also keeps what the LLM answered.
TailorInvoke ==
    /\ pc = "tailor_llm"
    /\ \E llm_out \in TailorOutcomes :
       LET r == run_resume_tailor(resume_text, job_description_text, llm_out)
       IN  /\ log' = log \o r.calls \o
                  (IF llm_out.raised = NoExc
                   THEN <<Call("llm.response", "run_resume_tailor", llm_out.content, PyNone)>>
                   ELSE <<>>) \o raise_note(r.raised, "tailor_button")
           /\ tailored_resume' = r.value
           /\ display' = display \o
                  (IF r.raised = NoExc THEN <<>> ELSE except_Exception(r.raised).shown)
           /\ pc' = IF r.raised = NoExc THEN "tailor_rescore"
                    ELSE after_handler(r.raised, "done")
    /\ UNCHANGED <<keys_loaded, cache, bound, has_resume_text, resume_text,
                   widget_vars, original_score, new_score, helper_vars>>

\* Line 280.
TailorRescore ==
    /\ pc = "tailor_rescore"
    /\ LET s == calculate_match_score(tailored_resume, job_description_text)
       IN  /\ log' = log \o <<Call("calculate_match_score", "new",
                                      tailored_resume, job_description_text)>> \o
                      raise_note(s.raised, "tailor_button")
           /\ new_score' = s.value
           /\ display' = display \o
                  (IF s.raised = NoExc THEN <<>> ELSE except_Exception(s.raised).shown)
           /\ pc' = IF s.raised = NoExc THEN "tailor_show"
                    ELSE after_handler(s.raised, "done")
    /\ UNCHANGED <<keys_loaded, cache, bound, has_resume_text, resume_text,
                   widget_vars, original_score, tailored_resume, helper_vars>>

\* Lines 282-291.
TailorShow ==
    /\ pc = "tailor_show"
    /\ display' = display \o
           <<st_rule, st_subheader("Your Tailored Resume"),
             st_metric("Original Match Score", original_score, 0),
             st_metric("New Tailored Score", new_score, new_score - original_score),
             st_markdown(tailored_resume)>>
    /\ pc' = "done"
    /\ UNCHANGED <<keys_loaded, cache, bound, has_resume_text, resume_text,
                   widget_vars, log, tailor_vars, helper_vars>>

\* The run is over, at the script's last line or at the exception that
\* left it: the page stays as rendered until the next interaction, and only
\* session state and resource cache are carried into the next run.
EndRun ==
    /\ pc \in {"done", "crashed"}
    /\ pc' = "idle"
    /\ secrets' = FALSE
    /\ company_name' = Str(<<>>)
    /\ job_role' = Str(<<>>)
    /\ uploaded_file' = NoFile
    /\ uploaded_file_tailor' = NoFile
    /\ job_description_text' = Str(<<>>)
    /\ clicked' = "none"
    /\ keys_loaded' = FALSE
    /\ bound' = FALSE
    /\ display' = <<>>
    /\ log' = <<>>
    /\ original_score' = 0
    /\ tailored_resume' = PyNone
    /\ new_score' = 0
    /\ UNCHANGED <<cache, has_resume_text, resume_text, helper_vars>>

Next ==
    \/ StartRun
    \/ LoadKeys
    \/ GetSharedComponents
    \/ KeysGate
    \/ ResearchButton
    \/ Tab2Uploader
    \/ MatcherButton
    \/ Tab3Uploader
    \/ TailorButton
    \/ TailorInvoke
    \/ TailorRescore
    \/ TailorShow
    \/ EndRun

Spec == Init /\ [][Next]_vars

(***************************************************************************)
(* calculate_match_score on its own: every pair of documents of up to      *)
(* MaxWords words, None included.                                          *)
(***************************************************************************)
MaxWords == 3

ScoreWords == {"python", "Python", "aws", "the"}

Texts(words, n) == UNION { { Str(w) : w \in [1..k -> words] } : k \in 0..n }

session_vars ==
    << secrets, keys_loaded, cache, bound, has_resume_text, resume_text,
       company_name, job_role, uploaded_file, uploaded_file_tailor,
       job_description_text, clicked, display, log, original_score,
       tailored_resume, new_score >>

InitScore ==
    /\ pc = "call_score"
    /\ fresh_session
    /\ argA \in Texts(ScoreWords, MaxWords) \cup {PyNone}
    /\ argB \in Texts(ScoreWords, MaxWords) \cup {PyNone}
    /\ ret = PyNone

ApplyScore ==
    /\ pc = "call_score"
    /\ ret' = calculate_match_score(argA, argB)
    /\ pc' = "returned"
    /\ UNCHANGED <<session_vars, argA, argB>>

SpecScore == InitScore /\ [][ApplyScore]_vars

(***************************************************************************)
(* run_job_matcher on its own: a resume and every list of up to MaxHits    *)
(* search results; the query LLM answers.                                  *)
(***************************************************************************)
MaxHits == 6

HitSnippets == { Str(<<>>), Str(<<"python", "aws">>), Str(<<"python">>), Str(<<"the">>) }

HitLists(n) ==
    UNION { { [i \in 1..k |-> [title |-> i, url |-> i, content |-> c[i]]] :
              c \in [1..k -> HitSnippets] } : k \in 0..n }

InitMatcher ==
    /\ pc = "call_matcher"
    /\ fresh_session
    /\ argA \in { Str(<<"python", "aws">>), Str(<<NL>>) }
    /\ argB \in HitLists(MaxHits)
    /\ ret = PyNone

ApplyMatcher ==
    /\ pc = "call_matcher"
    /\ ret' = run_job_matcher(argA, Returns(Str(<<"python", "jobs">>)), Finds(argB))
    /\ pc' = "returned"
    /\ UNCHANGED <<session_vars, argA, argB>>

SpecMatcher == InitMatcher /\ [][ApplyMatcher]_vars

(***************************************************************************)
(* Properties                                                              *)
(***************************************************************************)
CountLog(op) == Cardinality({i \in DOMAIN log : log[i].op = op})

CountLogAt(op, at) == Cardinality({i \in DOMAIN log : log[i].op = op /\ log[i].at = at})

\* What was rendered after the header of a tab.
ItemsSince(header) ==
    LET at == {k \in DOMAIN display : display[k] = st_header(header)}
    IN  IF at = {} THEN <<>>
        ELSE SubSeq(display, (CHOOSE k \in at : TRUE) + 1, Len(display))

Supported(file) == splitext(file.name)[2] \in {".pdf", ".docx"}

\* The file's parser raises somewhere on the way through the file.
ParserRaises(file) == file.failAt \in 1..(Len(file.parts) + 1)

\* C1: an exception raised while a button action runs is caught by that
\* action's handler and shown as "An error occurred: <its text>"; no
\* collaborator is invoked more than once in a run; no exception leaves a
\* handler (a run is only ever cut short by the construction of the shared
\* components); and a run that got past the keys gate renders all three tabs.
C1_ExceptionsCaughtAndShown ==
    /\ \A i \in DOMAIN log :
           log[i].op = "raise" =>
               \E k \in DOMAIN display :
                   /\ display[k].kind = "error"
                   /\ display[k].text = "An error occurred: "
                   /\ Str(<<display[k].cause>>) = log[i].a
    /\ \A op \in {"hub.pull", "agent_executor.invoke", "llm.invoke", "search_tool.invoke"} :
           CountLog(op) <= 1
    /\ (pc = "crashed" => (~bound /\ CountLog("raise") = 0))
    /\ (pc = "done" /\ keys_loaded =>
           \A h \in {"Research a Company and Role", "Analyze Your Resume", "Tailor Your Resume"} :
               \E k \in DOMAIN display : display[k] = st_header(h))

C1_Witness ==
    /\ pc = "done"
    /\ \E i \in DOMAIN log : log[i].op = "raise" /\ log[i].at = "research_button"
    /\ CountLog("hub.pull") = 1
    /\ CountLog("agent_executor.invoke") = 1

\* C2: whenever an uploader holds a file whose extension is neither ".pdf"
\* nor ".docx", its block renders a message (an error, a warning or a note)
\* about it, and the file is parsed once.
C2_UnsupportedFormatSurfaced ==
    /\ (pc = "matcher" /\ uploaded_file # NoFile /\ ~Supported(uploaded_file) =>
           /\ \E k \in DOMAIN ItemsSince("Analyze Your Resume") :
                  ItemsSince("Analyze Your Resume")[k].kind \in {"error", "warning", "info"}
           /\ CountLogAt("parse_resume", "tab2") = 1)
    /\ (pc = "tailor" /\ uploaded_file_tailor # NoFile /\ ~Supported(uploaded_file_tailor) =>
           /\ \E k \in DOMAIN ItemsSince("Tailor Your Resume") :
                  ItemsSince("Tailor Your Resume")[k].kind \in {"error", "warning", "info"}
           /\ CountLogAt("parse_resume", "tab3") = 1)

\* What C3 says of one uploader block, once the block is done.
ParseFailureHandled(file, header, at) ==
    file # NoFile /\ Supported(file) /\ ParserRaises(file) =>
        /\ resume_text = PyNone
        /\ \E k \in DOMAIN ItemsSince(header) :
               /\ ItemsSince(header)[k].kind = "error"
               /\ ItemsSince(header)[k].text = "Error parsing file: "
               /\ ItemsSince(header)[k].cause = file.cause
        /\ \A k \in DOMAIN ItemsSince(header) : ItemsSince(header)[k].kind # "success"
        /\ CountLogAt("parse_resume", at) = 1
        /\ CountLogAt("file.read", at) = 1

\* C3: when the parser of a PDF or DOCX upload raises, at the start or after
\* some pages were read, parse_resume returns None (never the text read so
\* far), "Error parsing file: <the exception's text>" is rendered, and the
\* file is read once.
C3_ParserFailureGivesNone ==
    /\ (pc = "matcher" => ParseFailureHandled(uploaded_file, "Analyze Your Resume", "tab2"))
    /\ (pc = "tailor" =>
           ParseFailureHandled(uploaded_file_tailor, "Tailor Your Resume", "tab3"))

C3_Witness ==
    /\ pc = "tailor"
    /\ uploaded_file_tailor # NoFile
    /\ Supported(uploaded_file_tailor)
    /\ uploaded_file_tailor.failAt = 2
    /\ uploaded_file_tailor.parts[1] # <<>>
    /\ resume_text = PyNone

C5_EmptyScoresZero ==
    pc = "returned" /\ ((~Truthy(argA)) \/ (~Truthy(argB))) =>
        ret.raised = NoExc /\ ret.value = 0 /\ ~ret.vectorizer

C5_Witness ==
    /\ pc = "returned"
    /\ argA = Str(<<"python">>)
    /\ argB = PyNone
    /\ ret.value = 0

\* C6: whenever calculate_match_score returns, its result is an integer k
\* in 0..100 with k <= 100 * cosine < k + 1 (truncation), and k = 100 only
\* for a cosine of exactly 1.
C6_TruncatedPercentage ==
    pc = "returned" /\ ret.raised = NoExc =>
        /\ ret.value \in 0..100
        /\ ret.vectorizer =>
               LET c2 == TfidfCosineSquared(Tokens(argA.words), Tokens(argB.words))
               IN  /\ LeqFrac(ret.value * ret.value, 10000, c2[1], c2[2])
                   /\ ~LeqFrac((ret.value + 1) * (ret.value + 1), 10000, c2[1], c2[2])
                   /\ (ret.value = 100 => c2[1] = c2[2])

C6_Witness ==
    /\ pc = "returned"
    /\ argA = Str(<<"python", "aws">>)
    /\ argB = Str(<<"Python">>)
    /\ ret.value = 57

\* The calls of the tailor handler, by their place in the log.
TailorInvocations ==
    {i \in DOMAIN log : log[i].op = "llm.invoke" /\ log[i].at = "run_resume_tailor"}

TailorResponses == {i \in DOMAIN log : log[i].op = "llm.response"}

\* What the tailor handler alone renders: the scores and the resume.
TailorOutput ==
    {k \in DOMAIN display :
        \/ display[k].kind = "metric"
        \/ (display[k].kind = "markdown" /\ display[k].text = "" /\ clicked = "tailor_button")}

\* C7: in a tailoring, the stored resume is scored against the job
\* description before the LLM is invoked; the LLM is invoked once; what is
\* re-scored against the same job description and what is displayed is the
\* LLM's response as it came; the delta shown is the new score minus the
\* original one; and without a response nothing of this is displayed.
C7_TailorUsesRawResponse ==
    /\ Cardinality(TailorInvocations) <= 1
    /\ \A i \in TailorInvocations :
           \E j \in 1..(i - 1) :
               log[j] = Call("calculate_match_score", "original",
                             resume_text, job_description_text)
    /\ \A i \in DOMAIN log :
           log[i].at = "new" =>
               \E r \in TailorResponses :
                   r < i /\ log[i].a = log[r].a /\ log[i].b = job_description_text
    /\ \A k \in TailorOutput :
           \E r \in TailorResponses :
               LET response == log[r].a
                   before == calculate_match_score(resume_text, job_description_text).value
                   after == calculate_match_score(response, job_description_text).value
               IN  /\ display[k].kind = "markdown" => display[k].doc = response
                   /\ display[k].text = "Original Match Score" => display[k].n = before
                   /\ display[k].text = "New Tailored Score" =>
                          display[k].n = after /\ display[k].m = after - before
    /\ (TailorResponses = {} => TailorOutput = {})

C7_Witness ==
    /\ pc = "done"
    /\ Cardinality(TailorInvocations) = 1
    /\ \E r \in TailorResponses : log[r].a = Str(<<"Python", "aws", NL>>)
    /\ \E k \in TailorOutput : display[k].text = "New Tailored Score" /\ display[k].m > 0

\* The search results with a snippet that are not among the jobs returned;
\* a job's title is the position of the result it came from.
Omitted(results, value) ==
    {r \in DOMAIN results :
        Truthy(results[r].content) /\ \A k \in DOMAIN value : value[k].title # r}

\* C8: when run_job_matcher returns, it returns at most 5 jobs, by
\* non-increasing score, equal scores in the order of the search results;
\* each is a search result with a non-empty snippet and carries
\* calculate_match_score(resume, snippet); and a result with a non-empty
\* snippet is left out only when 5 jobs of at least its score, and earlier
\* in case of a tie, are returned.
C8_TopFiveByScore ==
    pc = "returned" /\ ret.raised = NoExc =>
        LET value == ret.value
        IN  /\ Len(value) <= 5
            /\ \A i, j \in DOMAIN value :
                   i < j =>
                       /\ value[i].score >= value[j].score
                       /\ value[i].score = value[j].score => value[i].title < value[j].title
            /\ \A k \in DOMAIN value :
                   /\ value[k].title \in DOMAIN argB
                   /\ value[k].description = argB[value[k].title].content
                   /\ value[k].url = argB[value[k].title].url
                   /\ Truthy(value[k].description)
                   /\ value[k].score = calculate_match_score(argA, value[k].description).value
            /\ \A r \in Omitted(argB, value) :
                   /\ Len(value) = 5
                   /\ \A k \in DOMAIN value :
                          LET s == calculate_match_score(argA, argB[r].content).value
                          IN  \/ value[k].score > s
                              \/ (value[k].score = s /\ value[k].title < r)

C8_Witness ==
    /\ pc = "returned"
    /\ ret.raised = NoExc
    /\ Len(argB) = 6
    /\ Len(ret.value) = 5
    /\ \E r \in Omitted(argB, ret.value) : r < 6
    /\ \E i, j \in DOMAIN ret.value : i < j /\ ret.value[i].score = ret.value[j].score
    /\ \E i, j \in DOMAIN ret.value : ret.value[i].score > ret.value[j].score

\* The page of a run whose keys did not load.
MissingKeysPage ==
    { st_title, st_intro, st_error("API keys not found.", NoExc),
      Item("markdown", "secrets.toml", NoExc, PyNone, 0, 0) }

\* The keys of the current run failed to load (lines 22-27 have run).
KeysMissing == pc \notin {"idle", "keys"} /\ ~keys_loaded

\* C9: in a run whose keys did not load nothing is constructed, invoked or
\* parsed, the session's resume text and the resource cache are left as
\* they were, and the page holds the missing-keys error and no tab; every
\* use of llm, search_tool or the agent is in a run with keys_loaded true
\* and both names bound by get_shared_components.
C9_KeysGate ==
    /\ [](/\ KeysMissing =>
                 /\ log = <<>>
                 /\ ~bound
                 /\ pc \in {"components", "gate", "done"}
                 /\ \A k \in DOMAIN display : display[k] \in MissingKeysPage
                 /\ pc = "done" =>
                        \E k \in DOMAIN display :
                            display[k] = st_error("API keys not found.", NoExc)
          /\ \A i \in DOMAIN log :
                 log[i].op \in {"llm.invoke", "search_tool.invoke",
                                "agent_executor.invoke", "hub.pull", "parse_resume"} =>
                     keys_loaded /\ bound /\ cache)
    /\ [][KeysMissing' => UNCHANGED <<has_resume_text, resume_text, cache>>]_vars

C9_Witness ==
    /\ pc = "done"
    /\ ~keys_loaded
    /\ cache
    /\ Truthy(resume_text)
    /\ uploaded_file # NoFile
    /\ clicked = "matcher_button"

\* The text an uploader stores for the file it holds.
Parsed(file) == parse_resume(file).ret

\* C10: the stored resume text changes only in an uploader block that holds
\* a file (and is created empty at the gate of the session's first run with
\* keys); a block holding a file stores that file's parse result, None
\* included; so the matcher works on tab 2's file when there is one and
\* otherwise on the text the run started with, and the tailor on tab 3's
\* file when there is one and otherwise on tab 2's.
C10_OnlyUploadsWrite ==
    /\ [](/\ pc = "matcher" /\ uploaded_file # NoFile =>
                 resume_text = Parsed(uploaded_file)
          /\ pc = "tailor" /\ uploaded_file_tailor # NoFile =>
                 resume_text = Parsed(uploaded_file_tailor)
          /\ pc = "tailor" /\ uploaded_file_tailor = NoFile /\ uploaded_file # NoFile =>
                 resume_text = Parsed(uploaded_file)
          /\ \A i \in DOMAIN log :
                 /\ log[i].at = "run_job_matcher" /\ log[i].op = "calculate_match_score"
                       /\ uploaded_file # NoFile =>
                        log[i].a = Parsed(uploaded_file)
                 /\ log[i].at = "original" =>
                        log[i].a = IF uploaded_file_tailor # NoFile
                                   THEN Parsed(uploaded_file_tailor)
                                   ELSE IF uploaded_file # NoFile
                                   THEN Parsed(uploaded_file)
                                   ELSE log[i].a)
    /\ [][/\ resume_text' # resume_text =>
                 \/ pc = "gate" /\ ~has_resume_text /\ resume_text' = Str(<<>>)
                 \/ pc = "tab2" /\ uploaded_file # NoFile
                 \/ pc = "tab3" /\ uploaded_file_tailor # NoFile
          /\ has_resume_text' # has_resume_text => pc = "gate"
          /\ pc = "matcher" /\ pc' # "matcher" /\ uploaded_file = NoFile =>
                 \A i \in DOMAIN log' :
                     log'[i].at = "run_job_matcher" /\ log'[i].op = "calculate_match_score" =>
                         log'[i].a = resume_text]_vars

C10_Witness ==
    /\ pc = "tailor"
    /\ uploaded_file # NoFile
    /\ Truthy(Parsed(uploaded_file))
    /\ uploaded_file_tailor # NoFile
    /\ ~Supported(uploaded_file_tailor)
    /\ resume_text = PyNone

====
